---- MODULE Spec2Model ----
(***************************************************************************)
(* Real-time collaboration gateway of the kanban backend:                  *)
(*   backend/app/main.py  ConnectionManager (lines 8-76) and               *)
(*                        websocket_endpoint (lines 582-660).              *)
(*                                                                         *)
(* Every connection is served by its own coroutine on one event loop, so   *)
(* the code between two awaits is atomic.  One action of the model is one  *)
(* such stretch of code; the awaits are                                    *)
(*   main.py:589  await websocket.accept()                                 *)
(*   main.py:20   await websocket.accept()      (inside manager.connect)   *)
(*   main.py:61   await asyncio.gather(...)     (inside manager.broadcast) *)
(*   main.py:641  await websocket.close(...)                               *)
(*   main.py:631  await websocket.receive_text()                           *)
(***************************************************************************)
EXTENDS Integers, Sequences, FiniteSets, TLC

\* Number of websocket connections the environment opens.
MaxConns == 2

Conns == 1..MaxConns

None == 0

\* starlette.status.WS_1008_POLICY_VIOLATION (main.py:640)
WS_1008_POLICY_VIOLATION == 1008

\* main.py:641  websocket.close(code=close_code) passes no reason: the close
\* frame carries the empty reason text.
CloseReason == ""

\* What the accept of manager.connect (main.py:20) can do on a websocket
\* that line 589 has accepted already: the framework decides.  Starlette
\* raises RuntimeError; both outcomes are kept.
AcceptAgain == {"ok", "RuntimeError"}

\* ---------------------------------------------------------------------
\* The collaborators: the users table, the boards table and the tokens.
\* User 1 owns board 7 and user 2 is a member of it (spec.md, section 8);
\* user 3 owns board 8; board 9 is not in the database.
\* ---------------------------------------------------------------------
Email(u) == CASE u = 1 -> "a@x.com" [] u = 2 -> "b@x.com" [] OTHER -> "c@x.com"

Tokens == {"tokA", "tokB", "tokC", "bad"}

BoardIds == {7, 8, 9}

\* models.Board rows: owner_id and the ids of board.members
Boards == (7 :> [owner_id |-> 1, members |-> {2}]) @@
          (8 :> [owner_id |-> 3, members |-> {}])

\* What crud.get_board returns for an id with no row (Python's None)
NoBoard == [owner_id |-> None, members |-> {}]

\* crud.get_board: the row, or None
get_board(b) == IF b \in DOMAIN Boards THEN Boards[b] ELSE NoBoard

\* auth.get_current_user_from_token: the user of a valid token, or None where
\* the code raises HTTPException(401).
get_current_user_from_token(tok) ==
    CASE tok = "tokA" -> 1
      [] tok = "tokB" -> 2
      [] tok = "tokC" -> 3
      [] OTHER -> None

\* main.py:605-608  is_owner or is_member
HasAccess(db_board, user) ==
    LET is_owner  == db_board.owner_id = user
        is_member == user \in db_board.members
    IN  is_owner \/ is_member

\* Faulty variant of the admission: the check of lines 608-610 is missing.
AdmissionErrorNoAccessCheck(tok, b) ==
    LET user     == get_current_user_from_token(tok)
        db_board == get_board(b)
    IN  IF user = None THEN 401
        ELSE IF db_board = NoBoard THEN 404
        ELSE 0

\* main.py:600-610: the HTTPException status the admission raises, or 0.
AdmissionError(tok, b) ==
    LET user     == get_current_user_from_token(tok)
        db_board == get_board(b)
    IN  IF user = None THEN 401
        ELSE IF db_board = NoBoard THEN 404
        ELSE IF ~HasAccess(db_board, user) THEN 403
        ELSE 0

\* ---------------------------------------------------------------------
\* Lists (Python list) as sequences.
\* ---------------------------------------------------------------------
InList(s, x) == \E i \in 1..Len(s) : s[i] = x

ToSet(s) == {s[i] : i \in 1..Len(s)}

FirstIndex(s, x) == CHOOSE i \in 1..Len(s) : s[i] = x /\ \A j \in 1..(i-1) : s[j] # x

\* list.remove(x) for x in the list: drops the first occurrence
ListRemove(s, x) ==
    LET k == FirstIndex(s, x)
    IN  [i \in 1..(Len(s)-1) |-> IF i < k THEN s[i] ELSE s[i+1]]

VARIABLES
    active_connections, \* manager.active_connections: board id -> list of websockets
    pc,                 \* where each connection's handler is
    token,              \* the token query parameter of each connection
    board_id,           \* the board_id path parameter of each connection
    current_user,       \* the handler's current_user (None or a user id)
    accepts,            \* how many times websocket.accept() was called
    db,                 \* the handler's db session: "none", "open", "closed"
    closed,             \* the close code the handler sent, or None
    close_reason,       \* the reason text sent with the close
    valid_connections,  \* broadcast's local snapshot while it awaits gather
    sent,               \* per websocket, the messages send_json was called with
    escaped,            \* the exception that left the handler, or "none"
    results,            \* broadcast's `results`: the websockets whose send failed
    outcome,            \* how the broadcast call that has just ended ended
    witnessed,          \* history: who was registered since the handler's admission
    send_failed         \* history: some send of some broadcast has failed

vars == <<active_connections, pc, token, board_id, current_user, accepts,
          db, closed, close_reason, valid_connections, sent, escaped, results,
          outcome, witnessed, send_failed>>

\* ---------------------------------------------------------------------
\* ConnectionManager
\* ---------------------------------------------------------------------
Registered(reg, ws) == \E b \in DOMAIN reg : InList(reg[b], ws)

Room(reg, b) == IF b \in DOMAIN reg THEN reg[b] ELSE <<>>

\* Faulty variant of connect's registration: the list of the board is created
\* anew on every call instead of only when the key is absent.
RegisterOverwrite(reg, ws, b) ==
    [k \in DOMAIN reg \cup {b} |->
        IF k = b THEN <<ws>> ELSE reg[k]]

\* main.py:22-25  the registry after connect's append
Register(reg, ws, b) ==
    [k \in DOMAIN reg \cup {b} |->
        IF k = b THEN Append(Room(reg, b), ws) ELSE reg[k]]

\* Faulty variants of disconnect: one that leaves the emptied list under its
\* key, one that removes nothing, and one that does not raise for a
\* websocket that is not in the list.
DisconnectNoReclaim(reg, ws, b) ==
    IF b \in DOMAIN reg
    THEN IF InList(reg[b], ws)
         THEN [raised |-> FALSE, reg |-> [reg EXCEPT ![b] = ListRemove(reg[b], ws)]]
         ELSE [raised |-> TRUE, reg |-> reg]
    ELSE [raised |-> FALSE, reg |-> reg]

DisconnectKeeps(reg, ws, b) ==
    IF b \in DOMAIN reg /\ ~InList(reg[b], ws)
    THEN [raised |-> TRUE, reg |-> reg]
    ELSE [raised |-> FALSE, reg |-> reg]

DisconnectTolerant(reg, ws, b) ==
    IF b \in DOMAIN reg /\ InList(reg[b], ws)
    THEN LET rest == ListRemove(reg[b], ws)
         IN  [raised |-> FALSE,
              reg |-> IF rest = <<>>
                      THEN [k \in DOMAIN reg \ {b} |-> reg[k]]
                      ELSE [reg EXCEPT ![b] = rest]]
    ELSE [raised |-> FALSE, reg |-> reg]

\* main.py:28-37  disconnect: the registry afterwards and whether
\* list.remove raised ValueError (the websocket is not in the list).
Disconnect(reg, ws, b) ==
    IF b \in DOMAIN reg
    THEN IF InList(reg[b], ws)
         THEN LET rest == ListRemove(reg[b], ws)
              IN  [raised |-> FALSE,
                   reg |-> IF rest = <<>>
                           THEN [k \in DOMAIN reg \ {b} |-> reg[k]]
                           ELSE [reg EXCEPT ![b] = rest]]
         ELSE [raised |-> TRUE, reg |-> reg]
    ELSE [raised |-> FALSE, reg |-> reg]

\* Faulty variant of the loop at main.py:54-57: it skips the first websocket.
RecipientsButFirst(reg, b) == IF b \in DOMAIN reg THEN Tail(reg[b]) ELSE <<>>

\* Faulty variant of main.py:44-57: the sessions of every room are taken.
RecipientsAllRooms(reg, b) ==
    IF b \in DOMAIN reg THEN Room(reg, 7) \o Room(reg, 8) \o Room(reg, 9) ELSE <<>>

\* main.py:44-57  the websockets broadcast calls send_json on
Recipients(reg, b) == IF b \in DOMAIN reg THEN reg[b] ELSE <<>>

\* main.py:61  the results gather can return for the sends to `valid`: any
\* of the peers may have vanished, so any set of the sends may have failed.
GatherResults(valid) == SUBSET ToSet(valid)

\* main.py:63-76  what broadcast does once gather has returned `results`:
\* line 72 reads self.acrtive_connections and line 75 reads
\* self.active_conenections, attributes ConnectionManager does not have.
BroadcastFinish(reg, b, valid, failed) ==
    LET connections_to_remove == SelectSeq(valid, LAMBDA ws : ws \in failed)
    IN  IF connections_to_remove # <<>>
        THEN [raised |-> TRUE, reg |-> reg]                 \* line 72
        ELSE IF b \in DOMAIN reg
             THEN [raised |-> TRUE, reg |-> reg]            \* line 75
             ELSE [raised |-> FALSE, reg |-> reg]

\* ---------------------------------------------------------------------
\* Messages
\* ---------------------------------------------------------------------
\* main.py:616-623; `src` is not part of the message: it records the
\* connection the message is about.
join_message(c, user, b) ==
    [type |-> "USER_JOINED", user_id |-> user, email |-> Email(user),
     board_id |-> b, src |-> c]

\* Faulty variant of leave_message: the type of the join message is kept.
leave_messageAsJoin(c, user, b) ==
    [type |-> "USER_JOINED", user_id |-> user, email |-> "",
     board_id |-> b, src |-> c]

\* main.py:650-656
leave_message(c, user, b) ==
    [type |-> "USER_LEFT", user_id |-> user, email |-> "",
     board_id |-> b, src |-> c]

\* Faulty variant of the loop at main.py:54-57: every send task is queued twice.
SendAllTwice(snt, to, message) ==
    [ws \in Conns |->
        IF InList(to, ws) THEN Append(Append(snt[ws], message), message) ELSE snt[ws]]

\* send_json(message) called on every websocket of `to`
SendAll(snt, to, message) ==
    [ws \in Conns |-> IF InList(to, ws) THEN Append(snt[ws], message) ELSE snt[ws]]

\* ---------------------------------------------------------------------
Init ==
    /\ active_connections = [b \in {} |-> <<>>]
    /\ pc = [c \in Conns |-> "pending"]
    /\ token = [c \in Conns |-> "bad"]
    /\ board_id = [c \in Conns |-> 7]
    /\ current_user = [c \in Conns |-> None]
    /\ accepts = [c \in Conns |-> 0]
    /\ db = [c \in Conns |-> "none"]
    /\ closed = [c \in Conns |-> None]
    /\ valid_connections = [c \in Conns |-> <<>>]
    /\ sent = [c \in Conns |-> <<>>]
    /\ escaped = [c \in Conns |-> "none"]
    /\ results = [c \in Conns |-> {}]
    /\ outcome = [c \in Conns |-> "none"]
    /\ witnessed = [c \in Conns |-> {}]
    /\ close_reason = [c \in Conns |-> ""]
    /\ send_failed = FALSE

\* ---------------------------------------------------------------------
\* websocket_endpoint
\* ---------------------------------------------------------------------

\* The coroutine that holds the event loop: it has resumed from the gather
\* of main.py:61 and has not reached its next await.  No other coroutine
\* runs until it does.
Running(c) == pc[c] \in {"join_results", "join_ended", "leave_results", "leave_ended"}

LoopFree == \A k \in Conns : ~Running(k)

\* main.py:643-660  the finally block, entered with the exception `exc` in
\* flight ("none" when the try block's exception was handled).  It runs up
\* to the gather of the USER_LEFT broadcast, or to the end of the handler.
Finally(c, exc) ==
    LET b   == board_id[c]
        reg == active_connections
        d   == Disconnect(reg, c, b)
        to  == Recipients(d.reg, b)
        gone == ToSet(Room(reg, b)) \ ToSet(Room(d.reg, b))
    IN  IF current_user[c] = None
        THEN \* line 645: nothing is done, db.close() included
             /\ pc' = [pc EXCEPT ![c] = "done"]
             /\ escaped' = [escaped EXCEPT ![c] = exc]
             /\ UNCHANGED <<active_connections, sent, valid_connections, db, witnessed>>
        ELSE IF d.raised
        THEN \* line 646: list.remove raised ValueError
             /\ pc' = [pc EXCEPT ![c] = "done"]
             /\ escaped' = [escaped EXCEPT ![c] = "ValueError"]
             /\ UNCHANGED <<active_connections, sent, valid_connections, db, witnessed>>
        ELSE /\ active_connections' = d.reg
             /\ escaped' = [escaped EXCEPT ![c] = exc]
             /\ witnessed' = [s \in Conns |->
                                IF s # c /\ pc[s] = "join_gather"
                                THEN witnessed[s] \ gone
                                ELSE witnessed[s]]
             /\ IF b \notin DOMAIN d.reg
                THEN \* line 657 returns at line 44; lines 658-660
                     /\ pc' = [pc EXCEPT ![c] = "done"]
                     /\ db' = [db EXCEPT ![c] = IF @ = "open" THEN "closed" ELSE @]
                     /\ UNCHANGED <<sent, valid_connections>>
                ELSE \* line 657 up to the gather at line 61
                     /\ sent' = SendAll(sent, to, leave_message(c, current_user[c], b))
                     /\ valid_connections' = [valid_connections EXCEPT ![c] = to]
                     /\ pc' = [pc EXCEPT ![c] = "leave_gather"]
                     /\ UNCHANGED db

\* The client opens /ws/boards/{b}?token={tok}; main.py:589 accepts it.
\* Connections are opened in the order of their numbers.
Request(c, tok, b) ==
    /\ LoopFree
    /\ pc[c] = "pending"
    /\ \A k \in Conns : k < c => pc[k] # "pending"
    /\ token' = [token EXCEPT ![c] = tok]
    /\ board_id' = [board_id EXCEPT ![c] = b]
    /\ accepts' = [accepts EXCEPT ![c] = @ + 1]
    /\ pc' = [pc EXCEPT ![c] = "auth"]
    /\ UNCHANGED <<active_connections, current_user, db, closed,
                   valid_connections, sent, escaped, results, outcome, witnessed>>
    /\ UNCHANGED <<close_reason, send_failed>>

\* main.py:591-613: authentication and authorization, up to the close at
\* line 641 (rejected) or to the accept at line 20 (manager.connect).
Admit(c) ==
    /\ LoopFree
    /\ pc[c] = "auth"
    /\ LET user == get_current_user_from_token(token[c])
           err  == AdmissionError(token[c], board_id[c])
       IN  /\ db' = [db EXCEPT ![c] = "open"]
           /\ current_user' = [current_user EXCEPT ![c] = user]
           /\ IF err # 0
              THEN /\ pc' = [pc EXCEPT ![c] = "closing"]
                   /\ UNCHANGED accepts
              ELSE /\ pc' = [pc EXCEPT ![c] = "connect"]
                   /\ accepts' = [accepts EXCEPT ![c] = @ + 1]
    /\ UNCHANGED <<active_connections, token, board_id, closed,
                   valid_connections, sent, escaped, results, outcome, witnessed>>
    /\ UNCHANGED <<close_reason, send_failed>>

\* main.py:637-641 then the finally block: the rejected connection is closed.
Reject(c) ==
    /\ LoopFree
    /\ pc[c] = "closing"
    /\ closed' = [closed EXCEPT ![c] = WS_1008_POLICY_VIOLATION]
    /\ close_reason' = [close_reason EXCEPT ![c] = CloseReason]
    /\ Finally(c, "none")
    /\ UNCHANGED <<token, board_id, current_user, accepts, results, outcome>>
    /\ UNCHANGED send_failed

\* main.py:20-25 and 616-624 (to the gather at line 61): the accept of
\* manager.connect returns, or raises because the websocket was accepted
\* at line 589 already.
Connect(c) ==
    /\ LoopFree
    /\ pc[c] = "connect"
    /\ \E acc \in AcceptAgain :
         IF acc = "ok"
         THEN LET b   == board_id[c]
                  reg == Register(active_connections, c, b)
                  to  == Recipients(reg, b)
              IN  /\ active_connections' = reg
                  /\ sent' = SendAll(sent, to, join_message(c, current_user[c], b))
                  /\ valid_connections' = [valid_connections EXCEPT ![c] = to]
                  /\ pc' = [pc EXCEPT ![c] = "join_gather"]
                  /\ witnessed' = [witnessed EXCEPT ![c] = ToSet(reg[b]) \ {c}]
                  /\ UNCHANGED <<db, escaped>>
         ELSE Finally(c, acc)
    /\ UNCHANGED <<token, board_id, current_user, accepts, closed, results, outcome>>
    /\ UNCHANGED <<close_reason, send_failed>>

\* main.py:61  gather returns the results of the sends.
GatherReturns(c) ==
    /\ LoopFree
    /\ pc[c] \in {"join_gather", "leave_gather"}
    /\ \E failed \in GatherResults(valid_connections[c]) :
         /\ results' = [results EXCEPT ![c] = failed]
         /\ send_failed' = (send_failed \/ failed # {})
    /\ pc' = [pc EXCEPT ![c] = IF @ = "join_gather" THEN "join_results" ELSE "leave_results"]
    /\ UNCHANGED <<active_connections, token, board_id, current_user, accepts,
                   db, closed, valid_connections, sent, escaped, outcome, witnessed>>
    /\ UNCHANGED close_reason

\* main.py:63-76  the pruning of the websockets whose send failed.
Prune(c) ==
    /\ pc[c] \in {"join_results", "leave_results"}
    /\ LET r == BroadcastFinish(active_connections, board_id[c],
                                valid_connections[c], results[c])
       IN  /\ active_connections' = r.reg
           /\ outcome' = [outcome EXCEPT ![c] = IF r.raised THEN "raised" ELSE "returned"]
    /\ pc' = [pc EXCEPT ![c] = IF @ = "join_results" THEN "join_ended" ELSE "leave_ended"]
    /\ UNCHANGED <<token, board_id, current_user, accepts, db, closed,
                   valid_connections, sent, escaped, results, witnessed>>
    /\ UNCHANGED <<close_reason, send_failed>>

\* main.py:624-631: the USER_JOINED broadcast has ended: the handler goes on
\* to the receive loop, or, the broadcast having raised, to the finally block.
\* The joining session is in the room, so line 72 or line 75 always raises
\* here and the receive loop of lines 628-631 is never entered; it has no
\* action of its own.
JoinEnded(c) ==
    /\ pc[c] = "join_ended"
    /\ IF outcome[c] = "raised"
       THEN Finally(c, "AttributeError")
       ELSE /\ pc' = [pc EXCEPT ![c] = "receive"]
            /\ UNCHANGED <<active_connections, sent, valid_connections, db,
                           escaped, witnessed>>
    /\ results' = [results EXCEPT ![c] = {}]
    /\ outcome' = [outcome EXCEPT ![c] = "none"]
    /\ UNCHANGED <<token, board_id, current_user, accepts, closed>>
    /\ UNCHANGED <<close_reason, send_failed>>

\* main.py:657-660: the USER_LEFT broadcast has ended.
LeaveEnded(c) ==
    /\ pc[c] = "leave_ended"
    /\ pc' = [pc EXCEPT ![c] = "done"]
    /\ IF outcome[c] = "raised"
       THEN /\ escaped' = [escaped EXCEPT ![c] = "AttributeError"]
            /\ UNCHANGED db
       ELSE /\ db' = [db EXCEPT ![c] = "closed"]
            /\ UNCHANGED escaped
    /\ results' = [results EXCEPT ![c] = {}]
    /\ outcome' = [outcome EXCEPT ![c] = "none"]
    /\ valid_connections' = [valid_connections EXCEPT ![c] = <<>>]
    /\ UNCHANGED <<active_connections, token, board_id, current_user, accepts,
                   closed, sent, witnessed>>
    /\ UNCHANGED <<close_reason, send_failed>>

Next ==
    \E c \in Conns :
        \/ \E tok \in Tokens, b \in BoardIds : Request(c, tok, b)
        \/ Admit(c)
        \/ Reject(c)
        \/ Connect(c)
        \/ GatherReturns(c)
        \/ Prune(c)
        \/ JoinEnded(c)
        \/ LeaveEnded(c)

Spec == Init /\ [][Next]_vars

\* ---------------------------------------------------------------------
\* Properties
\* ---------------------------------------------------------------------
InRoom(c) == Registered(active_connections, c)

\* The connection's token is valid, its board exists and its user is the
\* owner or a member of the board.
Entitled(c) ==
    LET u == get_current_user_from_token(token[c])
        b == board_id[c]
    IN  /\ pc[c] # "pending"
        /\ u # None
        /\ b \in DOMAIN Boards
        /\ (Boards[b].owner_id = u \/ u \in Boards[b].members)

\* The admission of the connection has been decided and has failed.
Rejected(c) == pc[c] \notin {"pending", "auth"} /\ ~Entitled(c)

\* How many messages of type `ty` about connection s were sent to t
NSent(ty, s, t) ==
    Cardinality({i \in 1..Len(sent[t]) : sent[t][i].type = ty /\ sent[t][i].src = s})

\* The broadcast call of c has just ended (lines 63-76 have run).
BroadcastEnded(c) == pc[c] \in {"join_ended", "leave_ended"}

\* s has reached its teardown's disconnect (main.py:646)
Departed(s) == pc[s] \in {"leave_gather", "leave_results", "leave_ended", "done"}

\* C1: broadcast never raises to its caller because sends to some or all of
\* the recipients failed: whatever set of sends failed, the call returns.
C1_BroadcastAbsorbsFailures ==
    \A c \in Conns :
        (BroadcastEnded(c) /\ results[c] # {}) => outcome[c] = "returned"

\* C2: if exactly one registered session's send failed during a broadcast,
\* then when the call ends that session is no longer in the room.
C2_SelfPruning ==
    \A c \in Conns :
        (BroadcastEnded(c) /\ Cardinality(results[c]) = 1) =>
            results[c] \cap ToSet(Room(active_connections, board_id[c])) = {}

\* C3: active_connections never holds a board key whose list is empty; so
\* once the last session of a room is removed, the key is absent.
C3_NoEmptyRoom ==
    \A b \in DOMAIN active_connections : active_connections[b] # <<>>

\* A room was emptied by the teardown of its last session and its key is gone.
C3_Witness ==
    \E c \in Conns :
        /\ pc[c] = "done"
        /\ NSent("USER_JOINED", c, c) = 1
        /\ board_id[c] \notin DOMAIN active_connections

\* C4: a session is in a room only if its token was validated, its board
\* exists and its user is owner or member of it, and then only in the room
\* of its board; a rejected connection never was in a room (no USER_JOINED
\* about it was ever sent, which every registration does at once).
C4_AdmissionSafety ==
    \A c \in Conns :
        /\ InRoom(c) => Entitled(c)
        /\ \A b \in DOMAIN active_connections :
              InList(active_connections[b], c) => b = board_id[c]
        /\ Rejected(c) =>
              /\ ~InRoom(c)
              /\ \A t \in Conns : NSent("USER_JOINED", c, t) = 0

\* A session is registered while another connection has been rejected.
C4_Witness ==
    \E c, k \in Conns :
        /\ InRoom(c)
        /\ pc[k] = "done" /\ Rejected(k) /\ closed[k] = WS_1008_POLICY_VIOLATION

\* C5: websocket.accept is called only after token validation and board
\* authorization have both succeeded; a rejected connection is never accepted.
C5_ValidateBeforeAccept ==
    \A c \in Conns :
        accepts[c] > 0 => (pc[c] \notin {"pending", "auth"} /\ Entitled(c))

\* The USER_JOINED message about connection c, as the specification gives it.
Joined(c) ==
    [type |-> "USER_JOINED", user_id |-> current_user[c],
     email |-> Email(current_user[c]), board_id |-> board_id[c], src |-> c]

\* C6: in the step that registers a session, the session is added to the
\* room of its board and one USER_JOINED {user_id, email, board_id} is sent to
\* every session in that room at that moment, the new one included, and to
\* nobody else.
C6_JoinAnnounced ==
    [][\A c \in Conns :
          (~InRoom(c) /\ InRoom(c)') =>
              /\ InList(Room(active_connections', board_id[c]), c)
              /\ \A t \in Conns :
                    sent'[t] = IF InList(Room(active_connections', board_id[c]), t)
                               THEN Append(sent[t], Joined(c))
                               ELSE sent[t]]_vars

\* A session has joined a room that held another session: both were sent
\* the USER_JOINED about it.
C6_Witness ==
    \E c, t \in Conns :
        /\ c # t
        /\ pc[c] = "join_gather"
        /\ active_connections[board_id[c]] = <<t, c>>
        /\ sent[t][Len(sent[t])] = Joined(c)
        /\ sent[c][Len(sent[c])] = Joined(c)

\* C7: every other session that stays registered in the room of s from the
\* admission of s to its disconnect is sent exactly one USER_JOINED about s
\* and, once s has disconnected, exactly one USER_LEFT about s (and none
\* before); nobody is ever sent either message twice.
C7_JoinLeaveSymmetry ==
    \A s, t \in Conns :
        /\ NSent("USER_JOINED", s, t) <= 1
        /\ NSent("USER_LEFT", s, t) <= 1
        /\ ~Departed(s) => NSent("USER_LEFT", s, t) = 0
        /\ (s # t /\ t \in witnessed[s]) =>
              /\ NSent("USER_JOINED", s, t) = 1
              /\ Departed(s) => NSent("USER_LEFT", s, t) = 1

\* s has come and gone while t stayed registered, and t was sent both messages.
C7_Witness ==
    \E s, t \in Conns :
        /\ s # t
        /\ pc[s] = "done"
        /\ t \in witnessed[s]
        /\ InRoom(t)
        /\ NSent("USER_JOINED", s, t) = 1
        /\ NSent("USER_LEFT", s, t) = 1

\* C8: a USER_LEFT about a session is sent only once the session has been
\* removed from the registry: it is never sent to that session itself and
\* never while the session is still in a room.
C8_LeaveAfterRemoval ==
    [][\A s \in Conns :
          /\ NSent("USER_LEFT", s, s)' = 0
          /\ \A t \in Conns :
                NSent("USER_LEFT", s, t)' > NSent("USER_LEFT", s, t) => ~InRoom(s)']_vars

\* A USER_LEFT about s has been sent to a session that is still registered.
C8_Witness ==
    \E s, t \in Conns :
        s # t /\ NSent("USER_LEFT", s, t) = 1 /\ InRoom(t) /\ ~InRoom(s)

C10_RegisteredExactlyWhileAdmitted ==
    \A c \in Conns :
        InRoom(c) <=> (pc[c] \notin {"pending", "auth", "done"} /\ Entitled(c))

\* C10 as amended: a finished handler's session is in no room, and a session
\* is registered only while it has completed authentication and
\* authorization and has not completed teardown.
C10_RegisteredOnlyWhileAdmitted ==
    \A c \in Conns :
        /\ pc[c] = "done" => ~InRoom(c)
        /\ InRoom(c) => (pc[c] \notin {"pending", "auth", "done"} /\ Entitled(c))

\* A handler has finished through the error raised during its join
\* broadcast, and its session, which was registered, is in no room.
C10_Witness ==
    \E c \in Conns :
        /\ pc[c] = "done"
        /\ escaped[c] = "AttributeError"
        /\ NSent("USER_JOINED", c, c) = 1
        /\ ~InRoom(c)

\* C11: disconnect of a session that is not in the room of its board is a
\* no-op and not an error, whether or not the room exists: no handler ends
\* with the ValueError of list.remove (main.py:33).
C11_DisconnectAbsentIsNoOp ==
    \A c \in Conns : escaped[c] # "ValueError"

\* The step in which a broadcast call of c builds its send tasks and
\* suspends at the gather of main.py:61.
BroadcastStarts(c) ==
    /\ pc[c] \notin {"join_gather", "leave_gather"}
    /\ pc'[c] \in {"join_gather", "leave_gather"}

\* C12: a broadcast to board b calls send_json exactly once on every session
\* that is in room b when the broadcast starts, and on no other; no message
\* is sent in any other step.  So every session registered at that moment
\* is among the recipients.
C12_EveryRegisteredSessionIsSentOnce ==
    [][/\ \A c \in Conns :
            BroadcastStarts(c) =>
                LET room == Room(active_connections', board_id[c])
                IN  /\ valid_connections'[c] = room
                    /\ \A t \in Conns :
                          IF InList(room, t)
                          THEN /\ Len(sent'[t]) = Len(sent[t]) + 1
                               /\ SubSeq(sent'[t], 1, Len(sent[t])) = sent[t]
                               /\ sent'[t][Len(sent'[t])].src = c
                          ELSE sent'[t] = sent[t]
       /\ (\A c \in Conns : ~BroadcastStarts(c)) => sent' = sent]_vars

\* A USER_LEFT broadcast is awaiting its sends: the one session left in the
\* room is its one recipient and was sent the message.
C12_Witness ==
    \E c, t \in Conns :
        /\ c # t
        /\ pc[c] = "leave_gather"
        /\ valid_connections[c] = <<t>>
        /\ sent[t][Len(sent[t])] = [type |-> "USER_LEFT", user_id |-> current_user[c],
                                    email |-> "", board_id |-> board_id[c], src |-> c]

\* The registry with the entry of board b left out.
OtherRooms(reg, b) == [k \in DOMAIN reg \ {b} |-> reg[k]]

\* C13: a broadcast to board A sends nothing to a session that is registered
\* only in another board B, and no step of it (the sends, the pruning after
\* failed sends, the caller's own register or disconnect around it) changes
\* the entry of any board but A.
C13_Isolation ==
    [][\A c \in Conns :
          /\ BroadcastStarts(c) =>
                \A t \in Conns :
                    (InRoom(t) /\ board_id[t] # board_id[c]) => sent'[t] = sent[t]
          /\ pc'[c] # pc[c] =>
                OtherRooms(active_connections', board_id[c])
                    = OtherRooms(active_connections, board_id[c])]_vars

\* A broadcast to one board has ended with a failed send, after its step of
\* pruning, while a session is registered in another board.
C13_Witness ==
    \E c, t \in Conns :
        /\ BroadcastEnded(c) /\ results[c] # {}
        /\ InRoom(t) /\ board_id[t] # board_id[c]
        /\ \A i \in 1..Len(sent[t]) : sent[t][i].src = t

\* The session of c was registered (its own USER_JOINED was sent to it).
WasAdmitted(c) == NSent("USER_JOINED", c, c) = 1

C15_RejectedIsClosedWithReason ==
    \A c \in Conns :
        (pc[c] = "done" /\ Rejected(c)) =>
            /\ closed[c] = WS_1008_POLICY_VIOLATION
            /\ close_reason[c] # ""

\* a is user A (id 1) and b is user B (id 2), both on board 7.
ScenarioPair(a, b) ==
    /\ a # b
    /\ token[a] = "tokA" /\ board_id[a] = 7
    /\ token[b] = "tokB" /\ board_id[b] = 7

\* C16: with A and B members of board 7 and every send succeeding: when B
\* connects after A has connected, A is still registered and is sent the
\* USER_JOINED about B; the USER_LEFT about B reaches A after it; and once
\* both handlers have ended the registry has no entry for board 7.
C16_TwoMemberScenario ==
    [][\A a, b \in Conns :
          (ScenarioPair(a, b) /\ ~send_failed') =>
              /\ (WasAdmitted(a) /\ ~InRoom(b) /\ InRoom(b)') =>
                    /\ InRoom(a)'
                    /\ sent'[a][Len(sent'[a])] = Joined(b)
              /\ NSent("USER_LEFT", b, a)' = 1 => NSent("USER_JOINED", b, a)' = 1
              /\ (pc'[a] = "done" /\ pc'[b] = "done") =>
                    7 \notin DOMAIN active_connections']_vars

\* C17: when sessions were added to or removed from room b while a
\* broadcast to b awaited its sends, the broadcast still completes without
\* error.
C17_SnapshotDiscipline ==
    \A c \in Conns :
        (/\ BroadcastEnded(c)
         /\ ToSet(valid_connections[c]) # ToSet(Room(active_connections, board_id[c]))) =>
            outcome[c] = "returned"

\* C18: an admitted session to which every send has succeeded (no peer has
\* disconnected and no read has failed) stays registered and is not torn
\* down: a USER_JOINED broadcast without failures ends no session.
C18_AdmittedSessionStaysRegistered ==
    \A c \in Conns :
        (WasAdmitted(c) /\ ~send_failed) => (InRoom(c) /\ ~Departed(c))

\* C19: websocket.accept is called at most once on a websocket.
C19_AcceptAtMostOnce ==
    \A c \in Conns : accepts[c] <= 1

\* the number of times ws occurs in the room of board b
Occurrences(ws, b) ==
    LET room == Room(active_connections, b)
    IN  Cardinality({i \in 1..Len(room) : room[i] = ws})

\* c has returned from manager.connect and has not reached its teardown
Connected(c) == pc[c] \in {"join_gather", "join_results", "join_ended"}

\* C20: admissions to the same board lose no registration, whatever the
\* interleaving of the handlers: every session that has returned from connect
\* and has not been torn down is in the room of its board exactly once, and
\* no session occurs twice in any room.
C20_NoLostRegistration ==
    /\ \A c \in Conns : Connected(c) => Occurrences(c, board_id[c]) = 1
    /\ \A c \in Conns : \A b \in BoardIds : Occurrences(c, b) <= 1

\* Two handlers were admitted to the previously empty board 7; the one that
\* requested first resumed from its accept second; both are in the room.
C20_Witness ==
    /\ Connected(1) /\ Connected(2)
    /\ board_id[1] = 7 /\ board_id[2] = 7
    /\ witnessed[2] = {} /\ witnessed[1] = {2}
    /\ active_connections[7] = <<2, 1>>

\* C21: the database session opened by the endpoint is closed on every exit
\* path of the handler: no finished connection leaves its session open.
C21_DbClosedOnEveryExit ==
    \A c \in Conns : pc[c] = "done" => db[c] # "open"

====
